---- MODULE Spec2Model ----
(***************************************************************************)
(* FunctionAnalyzer of src/extractor.js: file discovery, the per-file      *)
(* traversal that fills the Declaration map (this.functions) and the Call  *)
(* Aggregate map (this.functionCalls), and the report passes over them.    *)
(*                                                                         *)
(* A source file is its syntax tree, listed in pre-order.  Only the nodes  *)
(* the visitors of analyzeFile / analyzeFunction react to are listed       *)
(* (Function, CallExpression, AwaitExpression, ClassDeclaration); the      *)
(* syntactic parent getFunctionInfo inspects is the field syn of a         *)
(* Function node.  A CallExpression listed under an AwaitExpression is     *)
(* that expression's operand.  Names are sequences of characters, so that  *)
(* prefixes, suffixes and concatenations are computed and not assumed.     *)
(***************************************************************************)
EXTENDS Integers, Sequences, FiniteSets, TLC

\* Bounds of the model.
MaxInput == 4
MaxFiles == 2
MaxEntries == 2
MaxDecls == 6

\* JavaScript null / undefined / a missing identifier.
Null == << >>

----------------------------------------------------------------------------
\* Names used by the enumerated programs.
NameA == <<"a">>
NameB == <<"b">>
NameThen == <<"t","h","e","n">>
NamePromise == <<"P","r","o","m","i","s","e">>
NameAll == <<"a","l","l">>
NameX == <<"x">>
NameK == <<"K">>
NameOnClick == <<"o","n","C","l","i","c","k">>
NameRender == <<"r","e","n","d","e","r">>
NameSaveHandler == <<"s","a","v","e","H","a","n","d","l","e","r">>
NameM == <<"m">>
NameAnonymousClass == <<"A","n","o","n","y","m","o","u","s","C","l","a","s","s">>
NameGetX == <<"g","e","t"," ","x">>

Upper ==
  {"A","B","C","D","E","F","G","H","I","J","K","L","M",
   "N","O","P","Q","R","S","T","U","V","W","X","Y","Z"}

\* this.functionBlacklist
functionBlacklist ==
  {
   <<"r","e","n","d","e","r">>,
   <<"p","r","e","l","o","a","d","T","e","m","p","l","a","t","e","s">>,
   <<"c","o","n","s","t","r","u","c","t","o","r">>,
   <<"o","n","C","h","a","n","g","e">>,
   <<"o","n","C","l","i","c","k">>,
   <<"o","n","S","u","b","m","i","t">>,
   <<"o","n","L","o","a","d">>,
   <<"o","n","R","e","a","d","y">>,
   <<"o","n","F","o","c","u","s">>,
   <<"o","n","B","l","u","r">>,
   <<"o","n","M","o","u","s","e","D","o","w","n">>,
   <<"o","n","M","o","u","s","e","U","p">>,
   <<"o","n","M","o","u","s","e","O","v","e","r">>,
   <<"o","n","M","o","u","s","e","O","u","t">>,
   <<"o","n","K","e","y","D","o","w","n">>,
   <<"o","n","K","e","y","U","p">>,
   <<"o","n","I","n","p","u","t">>,
   <<"o","n","S","c","r","o","l","l">>,
   <<"o","n","R","e","s","i","z","e">>,
   <<"o","n","E","r","r","o","r">>,
   <<"o","n","S","u","c","c","e","s","s">>,
   <<"o","n","C","o","m","p","l","e","t","e">>,
   <<"c","o","m","p","o","n","e","n","t","D","i","d","M","o","u","n","t">>,
   <<"c","o","m","p","o","n","e","n","t","W","i","l","l","U","n","m","o","u","n","t">>,
   <<"c","o","m","p","o","n","e","n","t","D","i","d","U","p","d","a","t","e">>,
   <<"b","e","f","o","r","e","M","o","u","n","t">>,
   <<"m","o","u","n","t","e","d">>,
   <<"b","e","f","o","r","e","U","p","d","a","t","e">>,
   <<"u","p","d","a","t","e","d">>,
   <<"b","e","f","o","r","e","D","e","s","t","r","o","y">>,
   <<"d","e","s","t","r","o","y","e","d">>,
   <<"u","s","e","E","f","f","e","c","t">>,
   <<"u","s","e","S","t","a","t","e">>,
   <<"u","s","e","C","a","l","l","b","a","c","k">>,
   <<"u","s","e","M","e","m","o">>,
   <<"u","s","e","R","e","f">>
  }

StartsWith(s, p) ==
  /\ Len(s) >= Len(p)
  /\ SubSeq(s, 1, Len(p)) = p

EndsWith(s, p) ==
  /\ Len(s) >= Len(p)
  /\ SubSeq(s, Len(s) - Len(p) + 1, Len(s)) = p

\* /^<p>[A-Z]/
PrefixThenUpper(s, p) ==
  /\ StartsWith(s, p)
  /\ Len(s) > Len(p)
  /\ s[Len(p) + 1] \in Upper

isBlacklistedFunction(functionName) ==
  \/ functionName \in functionBlacklist
  \/ PrefixThenUpper(functionName, <<"o","n">>)
  \/ PrefixThenUpper(functionName, <<"h","a","n","d","l","e">>)
  \/ EndsWith(functionName, <<"H","a","n","d","l","e","r">>)
  \/ EndsWith(functionName, <<"L","i","s","t","e","n","e","r">>)
  \/ EndsWith(functionName, <<"C","a","l","l","b","a","c","k">>)
  \/ PrefixThenUpper(functionName, <<"_","o","n">>)

----------------------------------------------------------------------------
\* Syntax-tree nodes.  parent is the index of the enclosing listed node
\* (0: the Program), line is node.loc.start.line.
\*   Function: type is the node type, name is node.id.name (Null without id),
\*             syn describes path.parent as getFunctionInfo reads it.
\*   Call:     type is the callee's node type, name the callee identifier or
\*             the member property identifier, obj the member object identifier;
\*             syn describes a member property that is not an identifier.
\*   Class:    name is node.id.name (Null for a class without id).
NoSyn == [ptype |-> "Other", kind |-> "-", keyType |-> "-", key |-> Null,
          computed |-> FALSE, keyObj |-> Null, keyProp |-> Null]

Node(kind, type, name, async, syn, obj) ==
  [kind |-> kind, type |-> type, name |-> name, async |-> async,
   syn |-> syn, obj |-> obj, parent |-> 0, line |-> 1]

FunctionDeclaration(id, async) ==
  Node("Function", "FunctionDeclaration", id, async, NoSyn, Null)

\* an arrow function whose parent binds no name (e.g. a call argument)
InlineArrow(async) ==
  Node("Function", "ArrowFunctionExpression", Null, async,
       [NoSyn EXCEPT !.ptype = "CallExpression"], Null)

\* a function expression with an id of its own whose parent binds no name,
\* e.g. the argument of foo(function bar() {})
InlineNamedFunction(id) ==
  Node("Function", "FunctionExpression", id, FALSE,
       [NoSyn EXCEPT !.ptype = "CallExpression"], Null)

\* a method of a class body, e.g. m() {} in class K { m() {} }: the node
\* is function-like itself, it has no id, and its parent is the ClassBody
ClassMethod ==
  Node("Function", "ClassMethod", Null, FALSE,
       [NoSyn EXCEPT !.ptype = "ClassBody"], Null)

\* an arrow function that is the value of a class property, e.g.
\* m = () => {} in class K { m = () => {} }
ClassPropertyArrow(key) ==
  Node("Function", "ArrowFunctionExpression", Null, FALSE,
       [NoSyn EXCEPT !.ptype = "ClassProperty", !.keyType = "Identifier",
                     !.key = key], Null)

\* an arrow function that is the value of an object property with a string
\* key, e.g. the arrow of ({ "get x": () => {} })
StringPropertyArrow(key) ==
  Node("Function", "ArrowFunctionExpression", Null, FALSE,
       [NoSyn EXCEPT !.ptype = "ObjectProperty", !.keyType = "StringLiteral",
                     !.key = key], Null)

\* an arrow function that is the value of an object property with a
\* computed member key, e.g. the arrow of ({ [K.x]: () => {} })
ComputedPropertyArrow(keyObj, keyProp) ==
  Node("Function", "ArrowFunctionExpression", Null, FALSE,
       [NoSyn EXCEPT !.ptype = "ObjectProperty",
                     !.keyType = "MemberExpression", !.computed = TRUE,
                     !.keyObj = keyObj, !.keyProp = keyProp], Null)

IdentifierCall(name) ==
  Node("Call", "Identifier", name, FALSE, NoSyn, Null)

MemberCall(obj, prop) ==
  Node("Call", "MemberExpression", prop, FALSE, NoSyn, obj)

\* a call through a computed member whose property is itself a member
\* expression, e.g. o[K.x](): callee.property is no identifier
ComputedMemberCall(obj, keyObj, keyProp) ==
  Node("Call", "MemberExpression", Null, FALSE,
       [NoSyn EXCEPT !.keyType = "MemberExpression", !.computed = TRUE,
                     !.keyObj = keyObj, !.keyProp = keyProp], obj)

\* a call whose callee is neither an identifier nor a member expression
OtherCall ==
  Node("Call", "Other", Null, FALSE, NoSyn, Null)

AwaitExpression ==
  Node("Await", "-", Null, FALSE, NoSyn, Null)

ClassDeclaration(id) ==
  Node("Class", "-", id, FALSE, NoSyn, Null)

\* The node labels the enumerated programs are built from.
CoreLabels ==
  {FunctionDeclaration(NameA, a) : a \in BOOLEAN}
    \cup {FunctionDeclaration(NameB, FALSE)}
    \cup {IdentifierCall(NameA), IdentifierCall(NameB),
          MemberCall(NameX, NameThen)}
    \cup {AwaitExpression, ClassDeclaration(NameK)}

\* The chain of listed ancestors of node i (nearest first), i included.
RECURSIVE AncestorsOrSelf(_, _)
AncestorsOrSelf(ast, i) ==
  IF i = 0 THEN << >> ELSE <<i>> \o AncestorsOrSelf(ast, ast[i].parent)

SeqToSet(s) == {s[i] : i \in DOMAIN s}

IsDescendant(ast, i, f) ==
  /\ i # f
  /\ f \in SeqToSet(AncestorsOrSelf(ast, i))

\* The nearest enclosing Function of a node attached under p (0 if none).
RECURSIVE EnclosingFunction(_, _)
EnclosingFunction(ast, p) ==
  IF p = 0 THEN 0
  ELSE IF ast[p].kind = "Function" THEN p
  ELSE EnclosingFunction(ast, ast[p].parent)

\* What the grammar allows when a node labelled v is appended under p.
\*   - p is the Program or lies on the path to the last node (pre-order);
\*   - an await has one operand, and await is only legal in an async
\*     function or at the top level of a module;
\*   - function and class declarations are statements: their nearest listed
\*     ancestor is a function body or the Program;
\*   - an await is an expression of a function body, of the Program or of a
\*     call's arguments;
\*   - a function passed as an argument lies under its call;
\*   - a method or a property of a class lies in the class's body;
\*   - a module declares a name once at its top level (a redeclaration is a
\*     syntax error; inside a function body a function may be redeclared).
Attachable(tr, v, p) ==
  /\ p = 0 \/ p \in SeqToSet(AncestorsOrSelf(tr, Len(tr)))
  /\ (p # 0 /\ tr[p].kind = "Await") => (v.kind = "Call" /\ p = Len(tr))
  /\ v.kind = "Await" =>
       /\ LET f == EnclosingFunction(tr, p) IN f = 0 \/ tr[f].async
       /\ p = 0 \/ tr[p].kind \in {"Function", "Call"}
  /\ (v.kind = "Class" \/ v.type = "FunctionDeclaration") =>
       (p = 0 \/ tr[p].kind = "Function")
  /\ v.syn.ptype = "CallExpression" => (p # 0 /\ tr[p].kind = "Call")
  /\ v.syn.ptype \in {"ClassBody", "ClassProperty"} =>
       (p # 0 /\ tr[p].kind = "Class")
  /\ ((v.kind = "Class" \/ v.type = "FunctionDeclaration") /\ p = 0) =>
       \A k \in 1..Len(tr) :
         (tr[k].parent = 0
            /\ (tr[k].kind = "Class" \/ tr[k].type = "FunctionDeclaration"))
           => tr[k].name # v.name

\* Line layouts: every node on a line of its own, or the file on one line.
NextLines(tr) ==
  IF Len(tr) = 0 THEN {1}
  ELSE IF Len(tr) = 1 THEN {1, 2}
  ELSE IF tr[2].line = 1 THEN {1}
  ELSE {Len(tr) + 1}

\* The trees parser.parse can return that extend tr by one node.
Extensions(labels, tr) ==
  {Append(tr, [t[1] EXCEPT !.parent = t[2], !.line = t[3]]) :
     t \in {u \in labels \X (0..Len(tr)) \X NextLines(tr) :
              Attachable(tr, u[1], u[2])}}

----------------------------------------------------------------------------
\* The directory tree under the scanned root.  A path is the sequence of its
\* components; ext is path.extname of the entry's name.
FileEntry(name, ext) ==
  [type |-> "file", name |-> name, ext |-> ext, readable |-> TRUE,
   entries |-> << >>]

\* readable: whether fs.readdirSync succeeds on the directory
DirEntry(name, readable, entries) ==
  [type |-> "dir", name |-> name, ext |-> "", readable |-> readable,
   entries |-> entries]

\* an entry fs.statSync fails on (a dangling link)
BrokenEntry(name) ==
  [type |-> "broken", name |-> name, ext |-> "", readable |-> FALSE,
   entries |-> << >>]

ExcludedDirs == {"node_modules", "dist", "build", ".git"}

SourceExts == {".js", ".jsx", ".mjs", ".ts", ".tsx"}

toLowerCase(ext) ==
  CASE ext = ".JS" -> ".js"
    [] ext = ".TS" -> ".ts"
    [] OTHER -> ext

\* A walk either returns the list it built or throws.
Returned(filesList) == [threw |-> FALSE, files |-> filesList]

Threw == [threw |-> TRUE, files |-> << >>]

\* findJSFilesManually: the loop over fs.readdirSync(dir), from entry i on.
\* dir is the directory's entry list; it is only reached when readdirSync
\* succeeded.
RECURSIVE WalkFrom(_, _, _, _)
WalkFrom(dir, i, filesList, basePath) ==
  IF i > Len(dir) THEN Returned(filesList)
  ELSE
    LET file == dir[i]
        relativePath == Append(basePath, file.name)
    IN  IF file.type = "broken" THEN Threw
        ELSE IF file.type = "dir" THEN
          IF file.name \in ExcludedDirs
          THEN WalkFrom(dir, i + 1, filesList, basePath)
          ELSE IF ~file.readable THEN Threw
          ELSE
            LET sub == WalkFrom(file.entries, 1, filesList, relativePath)
            IN  IF sub.threw THEN Threw
                ELSE WalkFrom(dir, i + 1, sub.files, basePath)
        ELSE IF toLowerCase(file.ext) \in SourceExts
          THEN WalkFrom(dir, i + 1, Append(filesList, relativePath), basePath)
          ELSE WalkFrom(dir, i + 1, filesList, basePath)

findJSFilesManually(root) ==
  IF ~root.readable THEN Threw ELSE WalkFrom(root.entries, 1, << >>, << >>)

\* What glob('**/*.{js,jsx,mjs,ts,tsx}', {ignore: [...]}) resolves to: the
\* matching files in walk order; directories it cannot list contribute
\* nothing, the four ignored directories are those directly under the root.
RECURSIVE GlobFrom(_, _, _, _)
GlobFrom(dir, i, filesList, basePath) ==
  IF i > Len(dir) THEN filesList
  ELSE
    LET file == dir[i]
        relativePath == Append(basePath, file.name)
    IN  IF file.type = "dir" THEN
          IF (basePath = << >> /\ file.name \in ExcludedDirs) \/ ~file.readable
          THEN GlobFrom(dir, i + 1, filesList, basePath)
          ELSE GlobFrom(dir, i + 1,
                        GlobFrom(file.entries, 1, filesList, relativePath),
                        basePath)
        ELSE IF file.type = "file" /\ file.ext \in SourceExts
          THEN GlobFrom(dir, i + 1, Append(filesList, relativePath), basePath)
          ELSE GlobFrom(dir, i + 1, filesList, basePath)

GlobFiles(root) == GlobFrom(root.entries, 1, << >>, << >>)

\* Directory trees: a readable root holding k source files.
SourceFile(i) == FileEntry("f" \o ToString(i) \o ".js", ".js")

\* Directory trees: up to MaxEntries entries under the root, among them
\* directories that cannot be listed, excluded directories and dangling
\* links.
EntryKinds(i) ==
  LET n == ToString(i)
      inside == FileEntry("g" \o n \o ".js", ".js")
  IN  {SourceFile(i),
       FileEntry("f" \o n \o ".css", ".css"),
       FileEntry("F" \o n \o ".JS", ".JS"),
       DirEntry("d" \o n, TRUE, <<inside>>),
       DirEntry("d" \o n, FALSE, <<inside>>),
       DirEntry("node_modules", TRUE, <<inside>>),
       BrokenEntry("l" \o n)}

DistinctNames(entries) ==
  \A i, j \in DOMAIN entries : entries[i].name = entries[j].name => i = j

RECURSIVE EntryLists(_)
EntryLists(k) ==
  IF k = 0 THEN {<< >>}
  ELSE {Append(es, e) : es \in EntryLists(k - 1), e \in EntryKinds(k)}

WalkTrees ==
  {DirEntry(".", TRUE, es) :
     es \in {l \in UNION {EntryLists(k) : k \in 0..MaxEntries} :
               DistinctNames(l)}}

\* the folder with one source file
FlatTrees1 == DirEntry(".", TRUE, <<SourceFile(1)>>)

FlatTrees ==
  {DirEntry(".", TRUE, [i \in 1..k |-> SourceFile(i)]) : k \in 0..MaxFiles}

----------------------------------------------------------------------------
VARIABLES
  tree,                  \* the file system under folderPath
  pc,                    \* where analyzeFolder stands
  jsFiles,               \* analyzeFolder's file list
  fileIdx,               \* position of the for loop over jsFiles
  ast,                   \* the tree of the file being traversed
  pos,                   \* position of traverse in the file's visit order
  currentClass,          \* analyzeFile's local
  functions,             \* this.functions, in insertion order
  functionCalls,         \* this.functionCalls
  errors,                \* this.errors
  skippedFunctionCount,  \* this.skippedFunctionCount
  report,                \* what generateReport logged
  inputLeft,             \* files and syntax nodes the run may still read
  contents               \* the log of what each file analysed so far held

vars ==
  <<tree, pc, jsFiles, fileIdx, ast, pos, currentClass, functions,
    functionCalls, errors, skippedFunctionCount, report, inputLeft,
    contents>>

analysis == <<functions, functionCalls, errors, skippedFunctionCount>>

----------------------------------------------------------------------------
\* analyzeFolder: the glob call and its two fallbacks to the manual search.
Glob ==
  /\ pc = "start"
  /\ \E outcome \in {"array", "rejected", "notArray"} :
       IF outcome = "array"
       THEN /\ jsFiles' = GlobFiles(tree)
            /\ pc' = "loop"
       ELSE /\ jsFiles' = jsFiles
            /\ pc' = "manual"
  /\ UNCHANGED <<tree, contents, report, fileIdx, ast, pos, currentClass, analysis, inputLeft>>

\* jsFiles = this.findJSFilesManually(folderPath): nothing catches what the
\* walk throws, so analyzeFolder's promise rejects and no file is analysed.
ManualSearch ==
  /\ pc = "manual"
  /\ LET walk == findJSFilesManually(tree)
     IN  IF walk.threw
         THEN /\ pc' = "aborted"
              /\ jsFiles' = jsFiles
         ELSE /\ pc' = "loop"
              /\ jsFiles' = walk.files
  /\ UNCHANGED <<tree, contents, report, fileIdx, ast, pos, currentClass, analysis, inputLeft>>

----------------------------------------------------------------------------
\* The order in which traverse calls the visitors of analyzeFile: Function
\* and CallExpression on entry, ClassDeclaration on entry and on exit.
\* open is the stack of ClassDeclarations entered and not yet left.
Visit(ev, i) == [ev |-> ev, node |-> i]

RECURSIVE VisitsFrom(_, _, _)
VisitsFrom(tr, i, open) ==
  IF open # << >> /\ (i > Len(tr) \/ ~IsDescendant(tr, i, Head(open)))
  THEN <<Visit("exit", Head(open))>> \o VisitsFrom(tr, i, Tail(open))
  ELSE IF i > Len(tr) THEN << >>
  ELSE IF tr[i].kind = "Class"
    THEN <<Visit("enter", i)>> \o VisitsFrom(tr, i + 1, <<i>> \o open)
  ELSE IF tr[i].kind \in {"Function", "Call"}
    THEN <<Visit("enter", i)>> \o VisitsFrom(tr, i + 1, open)
  ELSE VisitsFrom(tr, i + 1, open)

Visits(tr) == VisitsFrom(tr, 1, << >>)

\* The visit traverse is about to make in the current file.
AtVisit(ev, kind) ==
  /\ pc = "traverse"
  /\ pos <= Len(Visits(ast))
  /\ Visits(ast)[pos].ev = ev
  /\ ast[Visits(ast)[pos].node].kind = kind

CurrentNode == Visits(ast)[pos].node

CurrentFile == jsFiles[fileIdx]

----------------------------------------------------------------------------
\* getComputedPropertyName
getComputedPropertyName(syn) ==
  IF syn.keyObj # Null /\ syn.keyProp # Null
  THEN syn.keyObj \o <<".">> \o syn.keyProp
  ELSE <<"c","o","m","p","u","t","e","d">>

Tracked(name) == [name |-> name, shouldTrack |-> TRUE]

Untracked(name) == [name |-> name, shouldTrack |-> FALSE]

AccessorPrefix(kind) ==
  IF kind = "get" THEN <<"g","e","t"," ">>
  ELSE IF kind = "set" THEN <<"s","e","t"," ">>
  ELSE << >>

\* the branch shared by class methods and object methods
MethodInfo(syn) ==
  IF syn.keyType = "Identifier"
  THEN Tracked(AccessorPrefix(syn.kind) \o syn.key)
  ELSE IF syn.computed /\ syn.keyType = "MemberExpression"
    THEN Tracked(<<"[">> \o getComputedPropertyName(syn) \o <<"]">>)
  ELSE Untracked(<<"a","n","o","n","y","m","o","u","s"," ",
                   "m","e","t","h","o","d">>)

PropertyTypes ==
  {"ObjectProperty", "ClassProperty", "ClassAccessorProperty",
   "ClassPrivateProperty"}

InlineFunction ==
  Untracked(<<"c","a","l","l","b","a","c","k","/","i","n","l","i","n","e",
              " ","f","u","n","c","t","i","o","n">>)

\* getFunctionInfo(node, path): syn is path.parent
getFunctionInfo(node) ==
  LET syn == node.syn
      assigned ==
        IF /\ syn.ptype = "AssignmentExpression"
           /\ syn.keyType = "MemberExpression"
           /\ syn.keyProp # Null
        THEN Tracked(syn.keyProp)
        ELSE InlineFunction
  IN
  IF node.name # Null THEN Tracked(node.name)
  ELSE IF syn.ptype = "ClassMethod" THEN
    IF syn.kind = "constructor"
    THEN Tracked(<<"c","o","n","s","t","r","u","c","t","o","r">>)
    ELSE MethodInfo(syn)
  ELSE IF syn.ptype = "ObjectMethod" THEN MethodInfo(syn)
  ELSE IF node.type \in {"ArrowFunctionExpression", "FunctionExpression"} THEN
    IF syn.ptype = "VariableDeclarator" /\ syn.keyType = "Identifier"
    THEN Tracked(syn.key)
    ELSE IF syn.ptype \in PropertyTypes THEN
      IF syn.keyType = "Identifier" THEN Tracked(syn.key)
      ELSE IF syn.keyType = "StringLiteral" THEN Tracked(syn.key)
      ELSE IF syn.computed /\ syn.keyType = "MemberExpression"
        THEN Tracked(<<"[">> \o getComputedPropertyName(syn) \o <<"]">>)
      ELSE assigned
    ELSE assigned
  ELSE Untracked(<<"a","n","o","n","y","m","o","u","s">>)

\* getCallName, were it to name a computed member call after its key
getCallName_Computed(node) ==
  IF node.type = "Identifier" THEN node.name
  ELSE IF node.type = "MemberExpression" THEN
    IF node.name # Null THEN node.name
    ELSE IF node.syn.computed /\ node.syn.keyType = "MemberExpression"
      THEN <<"[">> \o getComputedPropertyName(node.syn) \o <<"]">>
    ELSE Null
  ELSE Null

\* getCallName
getCallName(node) ==
  IF node.type = "Identifier" THEN node.name
  ELSE IF node.type = "MemberExpression" THEN node.name
  ELSE Null

\* isPromiseOperation
isPromiseOperation(node) ==
  \/ /\ node.type = "MemberExpression"
     /\ node.name \in {<<"t","h","e","n">>, <<"c","a","t","c","h">>,
                       <<"f","i","n","a","l","l","y">>}
  \/ /\ node.type = "MemberExpression"
     /\ node.obj = <<"P","r","o","m","i","s","e">>

----------------------------------------------------------------------------
\* The nodes path.traverse visits below node f, in visit order.
Below(tr, f) ==
  LET Under(i) == IsDescendant(tr, i, f)
  IN  SelectSeq([i \in 1..Len(tr) |-> i], Under)

Operation(tr, i) == [line |-> tr[i].line, code |-> tr[i].kind]

\* analyzeFunction's path.traverse: the AwaitExpression visitor
CollectAwaits(tr, f) ==
  LET IsAwait(i) == tr[i].kind = "Await"
      found == SelectSeq(Below(tr, f), IsAwait)
  IN  [k \in 1..Len(found) |-> Operation(tr, found[k])]

\* analyzeFunction's path.traverse: the CallExpression visitor
CollectPromiseOps(tr, f) ==
  LET IsOp(i) == tr[i].kind = "Call" /\ isPromiseOperation(tr[i])
      found == SelectSeq(Below(tr, f), IsOp)
  IN  [k \in 1..Len(found) |-> Operation(tr, found[k])]

functionId(file, name, line) == <<file, name, line>>

Declaration(tr, f, file, className) ==
  LET node == tr[f]
      name == getFunctionInfo(node).name
  IN  [id |-> functionId(file, name, node.line),
       name |-> name,
       async |-> node.async,
       file |-> file,
       class |-> className,
       line |-> node.line,
       awaitedOperations |-> CollectAwaits(tr, f),
       promiseOperations |-> CollectPromiseOps(tr, f),
       calls |-> << >>,
       awaitedCalls |-> << >>]

\* Map.prototype.set on this.functions: an existing key keeps its place
MapSet(map, decl) ==
  IF \E k \in 1..Len(map) : map[k].id = decl.id
  THEN [k \in 1..Len(map) |-> IF map[k].id = decl.id THEN decl ELSE map[k]]
  ELSE Append(map, decl)

NewAggregate == [callers |-> << >>, totalCalls |-> 0]

\* if (!this.functionCalls.has(name)) this.functionCalls.set(name, {...})
EnsureAggregate(calls, name) ==
  IF name \in DOMAIN calls THEN calls ELSE (name :> NewAggregate) @@ calls

\* Fault: the caller is pushed and the counter is left alone.
RecordCall_NoCount(callInfo, caller) ==
  [callers |-> Append(callInfo.callers, caller),
   totalCalls |-> callInfo.totalCalls]

\* callInfo.callers.push(...); callInfo.totalCalls++
RecordCall(callInfo, caller) ==
  [callers |-> Append(callInfo.callers, caller),
   totalCalls |-> callInfo.totalCalls + 1]

\* Fault: only the shouldTrack test is made, the blacklist is not consulted.
ShouldSkip_UntrackedOnly(node) == ~getFunctionInfo(node).shouldTrack

\* analyzeFunction's two early returns
ShouldSkip(node) ==
  \/ ~getFunctionInfo(node).shouldTrack
  \/ isBlacklistedFunction(getFunctionInfo(node).name)

----------------------------------------------------------------------------
\* The size of the code base read so far is bounded: every file read and
\* every node parsed spends one unit while units are left.
Spend(left) == IF left > 0 THEN left - 1 ELSE 0

\* analyzeFile: fs.readFileSync succeeds and parser.parse starts.
AnalyzeFileRead ==
  /\ pc = "loop"
  /\ fileIdx <= Len(jsFiles)
  /\ pc' = "parse"
  /\ ast' = << >>
  /\ inputLeft' = Spend(inputLeft)
  /\ UNCHANGED <<tree, contents, report, jsFiles, fileIdx, pos, currentClass, analysis>>

\* parser.parse reads one more node of the file.
ParseNode(labels) ==
  /\ pc = "parse"
  /\ inputLeft > 0
  /\ ast' \in Extensions(labels, ast)
  /\ inputLeft' = inputLeft - 1
  /\ UNCHANGED <<tree, contents, report, pc, jsFiles, fileIdx, pos, currentClass,
                 analysis>>

\* parser.parse returns the tree and traverse(ast, {...}) starts.
Traverse ==
  /\ pc = "parse"
  /\ pc' = "traverse"
  /\ pos' = 1
  /\ currentClass' = Null
  /\ UNCHANGED <<tree, contents, report, jsFiles, fileIdx, ast, analysis, inputLeft>>

\* Fault: the loop has no catch, the error ends analyzeFolder.
AnalyzeFileThrow_Uncaught ==
  /\ pc = "loop"
  /\ fileIdx <= Len(jsFiles)
  /\ pc' = "aborted"
  /\ inputLeft' = Spend(inputLeft)
  /\ UNCHANGED <<tree, contents, report, jsFiles, fileIdx, ast, pos, currentClass,
                 analysis>>

\* analyzeFile throws (the read fails or the parser rejects the text) and
\* the catch of analyzeFolder's loop records it.
FileThrew ==
  /\ pc = "loop"
  /\ fileIdx <= Len(jsFiles)
  /\ \E message \in {"ENOENT", "Parse error"} :
       errors' = Append(errors, [file |-> CurrentFile, message |-> message])
  /\ fileIdx' = fileIdx + 1
  /\ inputLeft' = Spend(inputLeft)
  /\ UNCHANGED <<tree, report, pc, jsFiles, ast, pos, currentClass, functions,
                 functionCalls, skippedFunctionCount>>

AnalyzeFileThrow ==
  /\ FileThrew
  /\ UNCHANGED contents

\* The same step, the log noting that the file gave nothing to analyse.
AnalyzeFileThrowLogged ==
  /\ FileThrew
  /\ contents' = Append(contents, [threw |-> TRUE, ast |-> << >>])

\* ClassDeclaration.enter
ClassEnter ==
  /\ AtVisit("enter", "Class")
  /\ currentClass' = IF ast[CurrentNode].name # Null
                     THEN ast[CurrentNode].name
                     ELSE NameAnonymousClass
  /\ pos' = pos + 1
  /\ UNCHANGED <<tree, contents, report, pc, jsFiles, fileIdx, ast, analysis, inputLeft>>

\* ClassDeclaration.exit
ClassExit ==
  /\ AtVisit("exit", "Class")
  /\ currentClass' = Null
  /\ pos' = pos + 1
  /\ UNCHANGED <<tree, contents, report, pc, jsFiles, fileIdx, ast, analysis, inputLeft>>

\* Fault: the Declaration is stored and no aggregate is created for its name.
AnalyzeFunction_NoAggregate ==
  /\ AtVisit("enter", "Function")
  /\ IF ShouldSkip(ast[CurrentNode])
     THEN /\ skippedFunctionCount' = skippedFunctionCount + 1
          /\ UNCHANGED functions
     ELSE /\ functions' =
               MapSet(functions,
                      Declaration(ast, CurrentNode, CurrentFile, currentClass))
          /\ UNCHANGED skippedFunctionCount
  /\ pos' = pos + 1
  /\ UNCHANGED <<tree, contents, report, pc, jsFiles, fileIdx, ast, currentClass, errors,
                 functionCalls, inputLeft>>

\* The Function visitor: analyzeFunction(path, relativePath, currentClass)
AnalyzeFunction ==
  /\ AtVisit("enter", "Function")
  /\ LET node == ast[CurrentNode]
         functionInfo == getFunctionInfo(node)
     IN  IF ShouldSkip(node)
         THEN /\ skippedFunctionCount' = skippedFunctionCount + 1
              /\ UNCHANGED <<functions, functionCalls>>
         ELSE /\ functions' =
                   MapSet(functions,
                          Declaration(ast, CurrentNode, CurrentFile,
                                      currentClass))
              /\ functionCalls' =
                   EnsureAggregate(functionCalls, functionInfo.name)
              /\ UNCHANGED skippedFunctionCount
  /\ pos' = pos + 1
  /\ UNCHANGED <<tree, contents, report, pc, jsFiles, fileIdx, ast, currentClass, errors,
                 inputLeft>>

\* Fault: a call inside a function that gets no Declaration is not recorded.
AnalyzeCall_TrackedContextOnly ==
  /\ AtVisit("enter", "Call")
  /\ LET node == ast[CurrentNode]
         functionName == getCallName(node)
         context == EnclosingFunction(ast, node.parent)
         caller == [file |-> CurrentFile, line |-> node.line,
                    awaited |-> node.parent # 0
                                  /\ ast[node.parent].kind = "Await"]
         known == EnsureAggregate(functionCalls, functionName)
     IN  IF functionName = Null \/ (context # 0 /\ ShouldSkip(ast[context]))
         THEN UNCHANGED functionCalls
         ELSE functionCalls' =
                [known EXCEPT ![functionName] = RecordCall(@, caller)]
  /\ pos' = pos + 1
  /\ UNCHANGED <<tree, contents, report, pc, jsFiles, fileIdx, ast,
                 currentClass, functions, errors, skippedFunctionCount,
                 inputLeft>>

\* Fault: whether a call counts as awaited depends on something else than
\* the file (two runs over the same file may record it differently).
AnalyzeCall_Racy ==
  /\ AtVisit("enter", "Call")
  /\ LET node == ast[CurrentNode]
         functionName == getCallName(node)
         known == EnsureAggregate(functionCalls, functionName)
     IN  IF functionName = Null
         THEN UNCHANGED functionCalls
         ELSE \E isAwaited \in BOOLEAN :
                functionCalls' =
                  [known EXCEPT ![functionName] =
                     RecordCall(@, [file |-> CurrentFile, line |-> node.line,
                                    awaited |-> isAwaited])]
  /\ pos' = pos + 1
  /\ UNCHANGED <<tree, contents, report, pc, jsFiles, fileIdx, ast,
                 currentClass, functions, errors, skippedFunctionCount,
                 inputLeft>>

\* The CallExpression visitor: analyzeCall(path, relativePath)
AnalyzeCall ==
  /\ AtVisit("enter", "Call")
  /\ LET node == ast[CurrentNode]
         functionName == getCallName(node)
         isAwaited == node.parent # 0 /\ ast[node.parent].kind = "Await"
         caller == [file |-> CurrentFile, line |-> node.line,
                    awaited |-> isAwaited]
         known == EnsureAggregate(functionCalls, functionName)
     IN  IF functionName = Null
         THEN UNCHANGED functionCalls
         ELSE functionCalls' =
                [known EXCEPT ![functionName] = RecordCall(@, caller)]
  /\ pos' = pos + 1
  /\ UNCHANGED <<tree, contents, report, pc, jsFiles, fileIdx, ast, currentClass, functions,
                 errors, skippedFunctionCount, inputLeft>>

\* traverse returns, analyzeFile resolves, the loop moves to the next file
FileDone ==
  /\ pc = "traverse"
  /\ pos > Len(Visits(ast))
  /\ pc' = "loop"
  /\ fileIdx' = fileIdx + 1
  /\ ast' = << >>
  /\ pos' = 1
  /\ currentClass' = Null
  /\ UNCHANGED <<tree, report, jsFiles, analysis, inputLeft>>

AnalyzeFileDone ==
  /\ FileDone
  /\ UNCHANGED contents

\* The same step, the log keeping the tree parser.parse returned.
AnalyzeFileDoneLogged ==
  /\ FileDone
  /\ contents' = Append(contents, [threw |-> FALSE, ast |-> ast])

----------------------------------------------------------------------------
\* The report.  A logged line is kept as its tag and the call sites it cites.
Line(tag) == [tag |-> tag, sites |-> << >>]

Site(call) == [file |-> call.file, line |-> call.line]

SitesLine(calls) ==
  [tag |-> "sites", sites |-> [k \in 1..Len(calls) |-> Site(calls[k])]]

\* this.functionCalls.has(name), the truthiness of callInfo
HasCalls(calls, name) == name \in DOMAIN calls

\* this.functionCalls.get(name), where it is defined
GetCalls(calls, name) == calls[name]

\* (call) => call.awaited
IsAwaited(call) == call.awaited

\* Fault: the filter keeps every caller.
NotAwaited_Any(call) == TRUE

\* (call) => !call.awaited
NotAwaited(call) == ~call.awaited

\* Fault: only the await expressions are looked at.
NoOperations_AwaitsOnly(func) == Len(func.awaitedOperations) = 0

\* Fault: only the await expressions are looked at.
HasOperations_AwaitsOnly(func) == Len(func.awaitedOperations) > 0

\* func.awaitedOperations.length === 0 && func.promiseOperations.length === 0
NoOperations(func) ==
  Len(func.awaitedOperations) = 0 /\ Len(func.promiseOperations) = 0

\* func.awaitedOperations.length > 0 || func.promiseOperations.length > 0
HasOperations(func) ==
  Len(func.awaitedOperations) > 0 \/ Len(func.promiseOperations) > 0

\* generateAsyncValidationReport: issues_for_function of one declaration
IssuesFor(func, calls) ==
  LET nonAwaitedCalls ==
        IF ~HasCalls(calls, func.name) THEN << >>
        ELSE SelectSeq(GetCalls(calls, func.name).callers, NotAwaited)
      awaitedCalls ==
        IF ~HasCalls(calls, func.name) THEN << >>
        ELSE SelectSeq(GetCalls(calls, func.name).callers, IsAwaited)
  IN  IF func.async
      THEN (IF NoOperations(func)
            THEN <<Line("UNNECESSARY ASYNC"), Line("remove async")>>
            ELSE << >>)
           \o
           (IF Len(nonAwaitedCalls) > 0
            THEN <<Line("MISSING AWAIT"), SitesLine(nonAwaitedCalls),
                   Line("add await")>>
            ELSE << >>)
      ELSE (IF HasOperations(func)
            THEN <<Line("MISSING ASYNC"), Line("add async")>>
            ELSE << >>)
           \o
           (IF Len(awaitedCalls) > 0
            THEN <<Line("UNNECESSARY AWAIT"), SitesLine(awaitedCalls),
                   Line("remove await")>>
            ELSE << >>)

RECURSIVE SumLen(_)
SumLen(entries) ==
  IF entries = << >> THEN 0
  ELSE Len(Head(entries).issues) + SumLen(Tail(entries))

\* generateAsyncValidationReport: the declarations logged with their issues
\* and the total it prints
generateAsyncValidationReport(funcs, calls) ==
  LET all == [k \in 1..Len(funcs) |->
                [func |-> funcs[k],
                 issues |-> IssuesFor(funcs[k], calls)]]
      Flagged(e) == Len(e.issues) > 0
      listed == SelectSeq(all, Flagged)
  IN  [entries |-> listed, issues |-> SumLen(listed)]

\* Fault: only the calls below the declaration's own line are counted.
CallCount_AfterDeclaration(calls, func) ==
  IF ~HasCalls(calls, func.name) THEN 0
  ELSE LET Later(call) == call.file = func.file /\ call.line > func.line
       IN  Len(SelectSeq(GetCalls(calls, func.name).callers, Later))

\* callInfo ? callInfo.totalCalls : 0
CallCount(calls, func) ==
  IF ~HasCalls(calls, func.name) THEN 0
  ELSE GetCalls(calls, func.name).totalCalls

\* Fault: an entry is put before the entries with as many calls.
RECURSIVE InsertSorted_Unstable(_, _)
InsertSorted_Unstable(sorted, e) ==
  IF sorted = << >> THEN <<e>>
  ELSE IF e.callInfo.totalCalls >= Head(sorted).callInfo.totalCalls
    THEN <<e>> \o sorted
  ELSE <<Head(sorted)>> \o InsertSorted_Unstable(Tail(sorted), e)

\* Array.prototype.sort with (a, b) => b.callInfo.totalCalls -
\* a.callInfo.totalCalls: stable, descending
RECURSIVE InsertSorted(_, _)
InsertSorted(sorted, e) ==
  IF sorted = << >> THEN <<e>>
  ELSE IF e.callInfo.totalCalls > Head(sorted).callInfo.totalCalls
    THEN <<e>> \o sorted
  ELSE <<Head(sorted)>> \o InsertSorted(Tail(sorted), e)

RECURSIVE SortByCalls(_, _)
SortByCalls(sorted, rest) ==
  IF rest = << >> THEN sorted
  ELSE SortByCalls(InsertSorted(sorted, Head(rest)), Tail(rest))

Used(calls, func) == [func |-> func, callInfo |-> GetCalls(calls, func.name)]

\* generateUsageReport: the three lists it builds and logs
generateUsageReport(funcs, calls) ==
  LET IsUnused(f) == CallCount(calls, f) = 0
      IsSingle(f) == CallCount(calls, f) = 1
      IsMulti(f) == CallCount(calls, f) # 0 /\ CallCount(calls, f) # 1
      single == SelectSeq(funcs, IsSingle)
      multi == SelectSeq(funcs, IsMulti)
  IN  [unused |-> SelectSeq(funcs, IsUnused),
       singleUse |-> [k \in 1..Len(single) |->
                        [func |-> single[k],
                         callInfo |-> GetCalls(calls, single[k].name),
                         caller |-> GetCalls(calls, single[k].name).callers[1]]],
       multiUse |-> SortByCalls(<< >>,
                      [k \in 1..Len(multi) |-> Used(calls, multi[k])])]

\* A JavaScript number as the summary prints it.
Number(v) == [isNaN |-> FALSE, infinite |-> FALSE, value |-> v]

NaN == [isNaN |-> TRUE, infinite |-> FALSE, value |-> 0]

Infinity == [isNaN |-> FALSE, infinite |-> TRUE, value |-> 0]

\* Math.round((n / d) * 100)
RoundedPercent(n, d) ==
  IF d = 0 THEN (IF n = 0 THEN NaN ELSE Infinity)
  ELSE Number((200 * n + d) \div (2 * d))

\* generateSummary: the filter counting unused functions
SummaryIsUnused(calls, func) ==
  ~HasCalls(calls, func.name) \/ GetCalls(calls, func.name).totalCalls = 0

\* Fault: every function that is called at all counts as single-use.
SummaryIsSingleUse_AnyUse(calls, func) ==
  HasCalls(calls, func.name) /\ GetCalls(calls, func.name).totalCalls >= 1

\* generateSummary: the filter counting single-use functions
SummaryIsSingleUse(calls, func) ==
  HasCalls(calls, func.name) /\ GetCalls(calls, func.name).totalCalls = 1

\* generateSummary
generateSummary(funcs, calls, skipped) ==
  LET trackableFunctions == Len(funcs)
      IsAsync(f) == f.async
      asyncFunctions == Len(SelectSeq(funcs, IsAsync))
      syncFunctions == trackableFunctions - asyncFunctions
      IsUnused(f) == SummaryIsUnused(calls, f)
      IsSingle(f) == SummaryIsSingleUse(calls, f)
      unused == Len(SelectSeq(funcs, IsUnused))
      singleUse == Len(SelectSeq(funcs, IsSingle))
      wellUsed == trackableFunctions - unused - singleUse
  IN  [trackableFunctions |-> trackableFunctions,
       totalFunctions |-> trackableFunctions + skipped,
       asyncFunctions |-> asyncFunctions,
       syncFunctions |-> syncFunctions,
       unused |-> unused,
       singleUse |-> singleUse,
       wellUsed |-> wellUsed,
       usageEfficiency |->
         IF trackableFunctions > 0
         THEN RoundedPercent(wellUsed, trackableFunctions)
         ELSE Number(0),
       asyncPercent |-> RoundedPercent(asyncFunctions, trackableFunctions),
       syncPercent |-> RoundedPercent(syncFunctions, trackableFunctions),
       singleUsePercent |-> RoundedPercent(singleUse, trackableFunctions),
       unusedPercent |-> RoundedPercent(unused, trackableFunctions)]

\* countAsyncIssues
RECURSIVE countAsyncIssues(_, _)
countAsyncIssues(funcs, calls) ==
  IF funcs = << >> THEN 0
  ELSE
    LET func == Head(funcs)
        callInfo == GetCalls(calls, func.name)
        hasInfo == HasCalls(calls, func.name)
    IN  (IF func.async /\ Len(func.awaitedOperations) = 0
            /\ Len(func.promiseOperations) = 0 THEN 1 ELSE 0)
        + (IF ~func.async /\ HasOperations(func) THEN 1 ELSE 0)
        + (IF ~hasInfo THEN 0
           ELSE IF func.async
             THEN Len(SelectSeq(callInfo.callers, NotAwaited))
           ELSE Len(SelectSeq(callInfo.callers, IsAwaited)))
        + countAsyncIssues(Tail(funcs), calls)

\* if (singleUse > 5) / singleUse < 5 in generateRecommendations
InlineThreshold == 5

\* generateRecommendations: the blocks it logs, in order
generateRecommendations(funcs, calls) ==
  LET IsUnused(f) ==
        ~HasCalls(calls, f.name) \/ GetCalls(calls, f.name).totalCalls = 0
      IsSingle(f) ==
        HasCalls(calls, f.name) /\ GetCalls(calls, f.name).totalCalls = 1
      unused == Len(SelectSeq(funcs, IsUnused))
      singleUse == Len(SelectSeq(funcs, IsSingle))
      asyncIssues == countAsyncIssues(funcs, calls)
  IN  (IF unused > 0 THEN <<"Code Cleanup Priority">> ELSE << >>)
      \o (IF singleUse > InlineThreshold
          THEN <<"Refactoring Opportunity">> ELSE << >>)
      \o (IF asyncIssues > 0
          THEN <<"Async/Await Improvements">> ELSE << >>)
      \o (IF unused = 0 /\ singleUse < InlineThreshold /\ asyncIssues = 0
          THEN <<"EXCELLENT CODEBASE">> ELSE << >>)

\* The keys of a Map filled in the order of seq: first sightings, in order.
RECURSIVE FirstSightings(_, _)
FirstSightings(seq, seen) ==
  IF seq = << >> THEN << >>
  ELSE IF Head(seq) \in seen THEN FirstSightings(Tail(seq), seen)
  ELSE <<Head(seq)>> \o FirstSightings(Tail(seq), seen \cup {Head(seq)})

\* generateFunctionList: per file, per class (null first), the functions
\* with the call count logged for each
generateFunctionList(funcs, calls) ==
  LET files == FirstSightings([k \in 1..Len(funcs) |-> funcs[k].file], {})
      Entry(f) == [name |-> f.name, line |-> f.line, async |-> f.async,
                   callCount |-> CallCount(calls, f)]
      Group(inFile, className) ==
        LET InClass(f) == f.class = className
            members == SelectSeq(inFile, InClass)
        IN  [class |-> className,
             functions |-> [k \in 1..Len(members) |-> Entry(members[k])]]
      FileBlock(file) ==
        LET InFile(f) == f.file = file
            inFile == SelectSeq(funcs, InFile)
            classes ==
              <<Null>> \o
                FirstSightings([k \in 1..Len(inFile) |-> inFile[k].class],
                               {Null})
        IN  [file |-> file,
             trackable |-> Len(inFile),
             groups |-> [k \in 1..Len(classes) |-> Group(inFile, classes[k])]]
  IN  [k \in 1..Len(files) |-> FileBlock(files[k])]

NoReport ==
  [generated |-> FALSE, skipped |-> 0, errors |-> << >>,
   inventory |-> << >>,
   validation |-> [entries |-> << >>, issues |-> 0],
   usage |-> [unused |-> << >>, singleUse |-> << >>, multiUse |-> << >>],
   summary |-> generateSummary(<< >>, << >>, 0),
   recommendations |-> << >>]

\* generateReport
generateReport(funcs, calls, skipped, errs) ==
  [generated |-> TRUE, skipped |-> skipped, errors |-> errs,
   inventory |-> generateFunctionList(funcs, calls),
   validation |-> generateAsyncValidationReport(funcs, calls),
   usage |-> generateUsageReport(funcs, calls),
   summary |-> generateSummary(funcs, calls, skipped),
   recommendations |-> generateRecommendations(funcs, calls)]

----------------------------------------------------------------------------
\* The end of analyzeFolder, once the loop over jsFiles is over:
\* this.generateReport() and this.writeReportToFile(folderPath), which
\* catches a failed write.
GenerateReport ==
  /\ pc = "loop"
  /\ fileIdx > Len(jsFiles)
  /\ report' = generateReport(functions, functionCalls,
                              skippedFunctionCount, errors)
  /\ pc' = "done"
  /\ UNCHANGED <<tree, contents, jsFiles, fileIdx, ast, pos, currentClass, analysis,
                 inputLeft>>

----------------------------------------------------------------------------
\* new FunctionAnalyzer()
InitAnalyzer ==
  /\ pc = "start"
  /\ jsFiles = << >>
  /\ fileIdx = 1
  /\ ast = << >>
  /\ pos = 1
  /\ currentClass = Null
  /\ functions = << >>
  /\ functionCalls = << >>
  /\ errors = << >>
  /\ skippedFunctionCount = 0
  /\ report = NoReport
  /\ inputLeft = MaxInput
  /\ contents = << >>

Init ==
  /\ tree \in FlatTrees
  /\ InitAnalyzer

Next ==
  \/ Glob
  \/ ManualSearch
  \/ AnalyzeFileRead
  \/ ParseNode(CoreLabels)
  \/ Traverse
  \/ AnalyzeFileThrow
  \/ ClassEnter
  \/ ClassExit
  \/ AnalyzeFunction
  \/ AnalyzeCall
  \/ AnalyzeFileDone
  \/ GenerateReport

Spec == Init /\ [][Next]_vars

\* The same analyzer over the directory trees of WalkTrees, on files of
\* few node kinds.
WalkLabels ==
  {FunctionDeclaration(NameA, FALSE), IdentifierCall(NameA),
   ClassDeclaration(NameK)}

InitWalk ==
  /\ tree \in WalkTrees
  /\ InitAnalyzer

NextWalk ==
  \/ Glob
  \/ ManualSearch
  \/ AnalyzeFileRead
  \/ ParseNode(WalkLabels)
  \/ Traverse
  \/ AnalyzeFileThrow
  \/ ClassEnter
  \/ ClassExit
  \/ AnalyzeFunction
  \/ AnalyzeCall
  \/ AnalyzeFileDone
  \/ GenerateReport

SpecWalk == InitWalk /\ [][NextWalk]_vars

\* The same analyzer on files with functions the analysis skips: handlers
\* named by convention, blacklisted names and inline arrow functions.
SkipLabels ==
  {FunctionDeclaration(NameOnClick, FALSE),
   FunctionDeclaration(NameRender, FALSE),
   FunctionDeclaration(NameSaveHandler, TRUE),
   FunctionDeclaration(NameA, TRUE),
   InlineArrow(FALSE), InlineNamedFunction(NameB),
   IdentifierCall(NameA),
   ClassDeclaration(NameK)}

NextSkip ==
  \/ Glob
  \/ ManualSearch
  \/ AnalyzeFileRead
  \/ ParseNode(SkipLabels)
  \/ Traverse
  \/ AnalyzeFileThrow
  \/ ClassEnter
  \/ ClassExit
  \/ AnalyzeFunction
  \/ AnalyzeCall
  \/ AnalyzeFileDone
  \/ GenerateReport

SpecSkip == Init /\ [][NextSkip]_vars

\* The same analyzer, the contents of the files it analyses being logged.
ReplayLabels ==
  {FunctionDeclaration(NameA, a) : a \in BOOLEAN}
    \cup {IdentifierCall(NameA), MemberCall(NameX, NameThen),
          AwaitExpression, ClassDeclaration(NameK)}

NextReplay ==
  \/ Glob
  \/ ManualSearch
  \/ AnalyzeFileRead
  \/ ParseNode(ReplayLabels)
  \/ Traverse
  \/ AnalyzeFileThrowLogged
  \/ ClassEnter
  \/ ClassExit
  \/ AnalyzeFunction
  \/ AnalyzeCall
  \/ AnalyzeFileDoneLogged
  \/ GenerateReport

SpecReplay == Init /\ [][NextReplay]_vars

\* The same analyzer on files with classes and their members.
ClassLabels ==
  {ClassDeclaration(NameK), ClassMethod, ClassPropertyArrow(NameM),
   FunctionDeclaration(NameA, FALSE), IdentifierCall(NameA)}

NextClass ==
  \/ Glob
  \/ ManualSearch
  \/ AnalyzeFileRead
  \/ ParseNode(ClassLabels)
  \/ Traverse
  \/ AnalyzeFileThrow
  \/ ClassEnter
  \/ ClassExit
  \/ AnalyzeFunction
  \/ AnalyzeCall
  \/ AnalyzeFileDone
  \/ GenerateReport

SpecClass == Init /\ [][NextClass]_vars

\* The same analyzer on files of keyed functions: arrows bound to string
\* keys and to computed keys, the methods of a class, and the calls that
\* use them.
KeyedLabels ==
  {StringPropertyArrow(NameGetX), ComputedPropertyArrow(NameK, NameX),
   ComputedPropertyArrow(Null, Null), ClassDeclaration(NameK), ClassMethod,
   MemberCall(NameK, NameX), ComputedMemberCall(NameK, NameK, NameX)}

NextKeyed ==
  \/ Glob
  \/ ManualSearch
  \/ AnalyzeFileRead
  \/ ParseNode(KeyedLabels)
  \/ Traverse
  \/ AnalyzeFileThrow
  \/ ClassEnter
  \/ ClassExit
  \/ AnalyzeFunction
  \/ AnalyzeCall
  \/ AnalyzeFileDone
  \/ GenerateReport

SpecKeyed == Init /\ [][NextKeyed]_vars

\* The report of an analyzer that read one file: n function declarations
\* f1..fn on lines 1..n, the first k of one profile and the others of
\* another, followed by the calls of each.  A profile says whether the
\* function is async, whether its body holds an operation (an await in an
\* async function, a .then() call in another) and how it is called (one
\* flag per call: awaited or not).
CallPatterns ==
  {<< >>, <<FALSE>>, <<TRUE>>, <<FALSE, FALSE>>, <<FALSE, TRUE>>,
   <<FALSE, FALSE, FALSE>>}

Profiles == [async : BOOLEAN, ops : BOOLEAN, calls : CallPatterns]

FnName(i) == <<"f", ToString(i)>>

ProfileOf(i, k, first, rest) == IF i <= k THEN first ELSE rest

\* this.functions after the file was traversed
DeclaredFunctions(n, k, first, rest) ==
  [i \in 1..n |->
     LET p == ProfileOf(i, k, first, rest)
     IN  [id |-> functionId(GlobFiles(FlatTrees1)[1], FnName(i), i),
          name |-> FnName(i),
          async |-> p.async,
          file |-> GlobFiles(FlatTrees1)[1],
          class |-> Null,
          line |-> i,
          awaitedOperations |->
            IF p.ops /\ p.async
            THEN <<[line |-> i, code |-> "Await"]>> ELSE << >>,
          promiseOperations |->
            IF p.ops /\ ~p.async
            THEN <<[line |-> i, code |-> "Call"]>> ELSE << >>,
          calls |-> << >>,
          awaitedCalls |-> << >>]]

\* this.functionCalls after the file was traversed: the calls of fi are on
\* line n + i, the .then() calls are on the line of their function
RecordedCalls(n, k, first, rest) ==
  LET file == GlobFiles(FlatTrees1)[1]
      Aggregate(callers) == [callers |-> callers, totalCalls |-> Len(callers)]
      CallsOf(i) ==
        LET p == ProfileOf(i, k, first, rest)
        IN  [j \in 1..Len(p.calls) |->
               [file |-> file, line |-> n + i, awaited |-> p.calls[j]]]
      HasThen(i) ==
        LET p == ProfileOf(i, k, first, rest) IN p.ops /\ ~p.async
      thenLines == SelectSeq([i \in 1..n |-> i], HasThen)
      thens == [j \in 1..Len(thenLines) |->
                  [file |-> file, line |-> thenLines[j], awaited |-> FALSE]]
      named == [name \in {FnName(i) : i \in 1..n} |->
                  Aggregate(CallsOf(CHOOSE i \in 1..n : FnName(i) = name))]
  IN  IF thens = << >> THEN named
      ELSE (NameThen :> Aggregate(thens)) @@ named

InitReport ==
  /\ tree = FlatTrees1
  /\ pc = "loop"
  /\ jsFiles = GlobFiles(FlatTrees1)
  /\ fileIdx = 2
  /\ ast = << >>
  /\ pos = 1
  /\ currentClass = Null
  /\ \E n \in 0..MaxDecls : \E k \in 0..n : \E first, rest \in Profiles :
       /\ functions = DeclaredFunctions(n, k, first, rest)
       /\ functionCalls = RecordedCalls(n, k, first, rest)
  /\ errors = << >>
  /\ skippedFunctionCount = 0
  /\ report = NoReport
  /\ inputLeft = 0
  /\ contents = << >>

NextReport == GenerateReport

SpecReport == InitReport /\ [][NextReport]_vars

----------------------------------------------------------------------------
\* Properties.

Declared == {functions[k] : k \in 1..Len(functions)}

\* C1: in every reachable state every Call Aggregate of functionCalls has
\* totalCalls equal to the length of its callers.
C1_TotalCallsIsLength ==
  \A name \in DOMAIN functionCalls :
    functionCalls[name].totalCalls = Len(functionCalls[name].callers)

\* An aggregate created for a declaration has since counted two calls, and
\* the file is still being traversed.
C1_Witness ==
  /\ pc = "traverse"
  /\ \E d \in Declared :
       /\ d.name \in DOMAIN functionCalls
       /\ functionCalls[d.name].totalCalls = 2

\* The suspension points whose nearest enclosing function-like node is f.
OwnOperations(tr, f, kind) ==
  LET Own(i) ==
        /\ tr[i].kind = kind
        /\ kind = "Call" => isPromiseOperation(tr[i])
        /\ EnclosingFunction(tr, tr[i].parent) = f
      found == SelectSeq([i \in 1..Len(tr) |-> i], Own)
  IN  [k \in 1..Len(found) |-> Operation(tr, found[k])]

\* C2: the Declaration analyzeFunction stores for a tracked node holds the
\* suspension points whose nearest enclosing function-like node is that
\* node, and none that lie in the body of a nested function-like node.
C2_NearestEnclosingOnly ==
  [][(AtVisit("enter", "Function") /\ ~ShouldSkip(ast[CurrentNode])) =>
       \E d \in {functions'[k] : k \in 1..Len(functions')} :
         /\ d.id = Declaration(ast, CurrentNode, CurrentFile, currentClass).id
         /\ d.awaitedOperations = OwnOperations(ast, CurrentNode, "Await")
         /\ d.promiseOperations = OwnOperations(ast, CurrentNode, "Call")]_vars

\* The logged lines with the given tag under the declaration with this id.
FlagCount(id, tag) ==
  LET Tagged(l) == l.tag = tag
      Of(e) == e.func.id = id
      mine == SelectSeq(report.validation.entries, Of)
  IN  IF mine = << >> THEN 0
      ELSE Len(SelectSeq(mine[1].issues, Tagged))

\* The call sites logged right after the line with the given tag.
CitedSites(id, tag) ==
  LET Of(e) == e.func.id = id
      mine == SelectSeq(report.validation.entries, Of)
      at == IF mine = << >> THEN {}
            ELSE {i \in 1..Len(mine[1].issues) : mine[1].issues[i].tag = tag}
  IN  IF at = {} THEN << >>
      ELSE mine[1].issues[(CHOOSE i \in at : TRUE) + 1].sites

OperationCount(d) == Len(d.awaitedOperations) + Len(d.promiseOperations)

\* C3: the validation report carries the unnecessary-async flag exactly once
\* for every async declaration without suspension points, and for no other.
C3_UnnecessaryAsync ==
  pc = "done" =>
    \A d \in Declared :
      FlagCount(d.id, "UNNECESSARY ASYNC") =
        IF d.async /\ OperationCount(d) = 0 THEN 1 ELSE 0

\* The report flags an async declaration without suspension points and
\* leaves out an async one whose only suspension point is a promise call.
C3_Witness ==
  /\ pc = "done"
  /\ \E d \in Declared :
       d.async /\ OperationCount(d) = 0
         /\ FlagCount(d.id, "UNNECESSARY ASYNC") = 1
  /\ \E d \in Declared :
       d.async /\ Len(d.awaitedOperations) = 0 /\ Len(d.promiseOperations) = 1

\* C4: the validation report carries the missing-async flag exactly once for
\* every non-async declaration with a suspension point, and for no other.
C4_MissingAsync ==
  pc = "done" =>
    \A d \in Declared :
      FlagCount(d.id, "MISSING ASYNC") =
        IF ~d.async /\ OperationCount(d) > 0 THEN 1 ELSE 0

\* The report flags a non-async declaration holding a promise call and
\* leaves out a non-async one without suspension points.
C4_Witness ==
  /\ pc = "done"
  /\ \E d \in Declared :
       ~d.async /\ Len(d.promiseOperations) = 1
         /\ Len(d.awaitedOperations) = 0
         /\ FlagCount(d.id, "MISSING ASYNC") = 1
  /\ \E d \in Declared : ~d.async /\ OperationCount(d) = 0

\* The Call Records of a declaration's aggregate whose awaited value
\* disagrees with the declaration's async flag, as call sites.
Disagreeing(d) ==
  LET Differs(call) == call.awaited # d.async
      calls == IF d.name \in DOMAIN functionCalls
               THEN SelectSeq(functionCalls[d.name].callers, Differs)
               ELSE << >>
  IN  [k \in 1..Len(calls) |-> Site(calls[k])]

\* C5: under its caller-based flag (missing-await for an async declaration,
\* unnecessary-await for a non-async one) the report cites exactly the
\* callers whose awaited value disagrees with the declaration's async flag;
\* the flag is logged once when there is such a caller and not otherwise,
\* and the other caller-based flag is never logged for the declaration.
C5_CallerFlags ==
  pc = "done" =>
    \A d \in Declared :
      LET mine == IF d.async THEN "MISSING AWAIT" ELSE "UNNECESSARY AWAIT"
          other == IF d.async THEN "UNNECESSARY AWAIT" ELSE "MISSING AWAIT"
      IN  /\ CitedSites(d.id, mine) = Disagreeing(d)
          /\ FlagCount(d.id, mine) = IF Disagreeing(d) = << >> THEN 0 ELSE 1
          /\ FlagCount(d.id, other) = 0

\* An async declaration is called without await and the report cites that
\* call site under missing-await, next to a declaration it does not flag.
C5_Witness ==
  /\ pc = "done"
  /\ \E d \in Declared :
       /\ d.async
       /\ functionCalls[d.name].totalCalls = 1
       /\ ~functionCalls[d.name].callers[1].awaited
       /\ CitedSites(d.id, "MISSING AWAIT")
            = <<Site(functionCalls[d.name].callers[1])>>
  /\ \E d \in Declared :
       ~d.async /\ FlagCount(d.id, "UNNECESSARY AWAIT") = 0

\* The tier of a declaration by the totalCalls of its name's aggregate.
TotalCalls(d) ==
  IF d.name \in DOMAIN functionCalls
  THEN functionCalls[d.name].totalCalls ELSE 0

\* The declarations (by id) a usage list holds.
ListedIds(list) == {list[k].func.id : k \in 1..Len(list)}

\* C6: at the end of a run the usage lists partition the declarations by
\* totalCalls (0: unused, 1: single-use, 2 or more: well-used), their sizes
\* add up to the number of declarations, and generateSummary's counts are
\* the sizes of generateUsageReport's lists.
C6_TiersPartition ==
  pc = "done" =>
    LET unused == report.usage.unused
        singleUse == report.usage.singleUse
        multiUse == report.usage.multiUse
        summary == report.summary
    IN  /\ \A d \in Declared :
             /\ (d.id \in {unused[k].id : k \in 1..Len(unused)})
                  <=> TotalCalls(d) = 0
             /\ d.id \in ListedIds(singleUse) <=> TotalCalls(d) = 1
             /\ d.id \in ListedIds(multiUse) <=> TotalCalls(d) >= 2
        /\ Len(unused) + Len(singleUse) + Len(multiUse) = Len(functions)
        /\ summary.trackableFunctions = Len(functions)
        /\ summary.unused = Len(unused)
        /\ summary.singleUse = Len(singleUse)
        /\ summary.wellUsed = Len(multiUse)
        /\ summary.unused + summary.singleUse + summary.wellUsed
             = summary.trackableFunctions

\* A run ends with a declaration called twice, listed as well-used.
C6_Witness ==
  /\ pc = "done"
  /\ Len(report.usage.multiUse) = 1
  /\ report.usage.multiUse[1].callInfo.totalCalls = 2
  /\ report.summary.wellUsed = 1

\* C7: when the run tracked no function, each percentage of the summary
\* (async, sync, single-use, unused, usage efficiency) is reported as 0.
C7_PercentagesGuarded ==
  (pc = "done" /\ Len(functions) = 0) =>
    /\ report.summary.asyncPercent = Number(0)
    /\ report.summary.syncPercent = Number(0)
    /\ report.summary.singleUsePercent = Number(0)
    /\ report.summary.unusedPercent = Number(0)
    /\ report.summary.usageEfficiency = Number(0)

\* The tracked function nodes of the current file visited so far.
TrackedVisited ==
  {k \in 1..(pos - 1) :
     /\ ast[Visits(ast)[k].node].kind = "Function"
     /\ ~ShouldSkip(ast[Visits(ast)[k].node])}

\* C8: every tracked function-like node visited has its own Declaration:
\* the Declarations of the file being traversed are as many as its tracked
\* nodes visited so far, none was replaced by a later analyzeFunction.
C8_OneDeclarationPerNode ==
  pc = "traverse" =>
    Cardinality({k \in 1..Len(functions) : functions[k].file = CurrentFile})
      = Cardinality(TrackedVisited)

\* What a step of the loop over jsFiles does when the file is not parsed.
FileFailed ==
  /\ pc = "loop"
  /\ fileIdx <= Len(jsFiles)
  /\ pc' # "parse"

CallSiteFiles ==
  UNION {{functionCalls[n].callers[k].file :
            k \in 1..Len(functionCalls[n].callers)} :
         n \in DOMAIN functionCalls}

ErrorFiles == {errors[k].file : k \in 1..Len(errors)}

\* C9: a file whose analysis throws is recorded in errors, leaves the
\* Declarations and Call Aggregates as they were and contributes none; the
\* loop goes on to the next file, and the run ends with every file visited
\* and the report generated, the errors in it.
C9_FailureIsolated ==
  /\ [][FileFailed =>
          /\ Len(errors') = Len(errors) + 1
          /\ SubSeq(errors', 1, Len(errors)) = errors
          /\ errors'[Len(errors')].file = CurrentFile
          /\ functions' = functions
          /\ functionCalls' = functionCalls
          /\ pc' = "loop"
          /\ fileIdx' = fileIdx + 1]_vars
  /\ [](\A file \in ErrorFiles :
          /\ \A d \in Declared : d.file # file
          /\ file \notin CallSiteFiles)
  /\ [](pc = "done" =>
          /\ fileIdx = Len(jsFiles) + 1
          /\ report.generated
          /\ report.errors = errors)

\* The first file failed, the second was analysed after it and declared a
\* function, and the report was generated with the error in it.
C9_Witness ==
  /\ pc = "done"
  /\ Len(jsFiles) = 2
  /\ ErrorFiles = {jsFiles[1]}
  /\ \E d \in Declared : d.file = jsFiles[2]
  /\ report.generated
  /\ Len(report.errors) = 1

\* What the manual walk is to return: the source files of every directory
\* it can list, entries it cannot stat or list being skipped.
RECURSIVE TolerantWalk(_, _, _, _)
TolerantWalk(dir, i, filesList, basePath) ==
  IF i > Len(dir) THEN filesList
  ELSE
    LET file == dir[i]
        relativePath == Append(basePath, file.name)
    IN  IF file.type = "dir" /\ file.name \notin ExcludedDirs /\ file.readable
        THEN TolerantWalk(dir, i + 1,
               TolerantWalk(file.entries, 1, filesList, relativePath),
               basePath)
        ELSE IF file.type = "file" /\ toLowerCase(file.ext) \in SourceExts
          THEN TolerantWalk(dir, i + 1, Append(filesList, relativePath),
                            basePath)
        ELSE TolerantWalk(dir, i + 1, filesList, basePath)

\* C10: the manual walk skips a subdirectory it cannot list or stat and
\* still returns the source files of every other directory; the scan is
\* not aborted.
C10_WalkSkipsUnreadable ==
  [][pc = "manual" =>
       /\ pc' = "loop"
       /\ jsFiles' = TolerantWalk(tree.entries, 1, << >>, << >>)]_vars

\* The names the inventory lists.
InventoryNames ==
  UNION {UNION {{g.functions[k].name : k \in 1..Len(g.functions)} :
                g \in SeqToSet(b.groups)} :
         b \in SeqToSet(report.inventory)}

\* The names of the declarations the validation section flags.
FlaggedNames == {e.func.name : e \in SeqToSet(report.validation.entries)}

\* The names of the declarations in the three usage tiers.
TierNames ==
  {f.name : f \in SeqToSet(report.usage.unused)}
    \cup {e.func.name : e \in SeqToSet(report.usage.singleUse)}
    \cup {e.func.name : e \in SeqToSet(report.usage.multiUse)}

\* analyzeFunction is about to visit a named function whose name is
\* blacklisted or follows a handler naming convention.
VisitingBlacklisted ==
  /\ AtVisit("enter", "Function")
  /\ getFunctionInfo(ast[CurrentNode]).shouldTrack
  /\ isBlacklistedFunction(getFunctionInfo(ast[CurrentNode]).name)

\* C11: a function whose name is blacklisted or follows a handler naming
\* convention never gets a Declaration: visiting it leaves the Declarations
\* and the aggregates as they were and adds one to the skipped count, no
\* Declaration ever carries such a name, and the inventory, the flagged
\* declarations and the usage tiers of the report hold none.
C11_BlacklistedNeverDeclared ==
  /\ [][VisitingBlacklisted =>
          /\ functions' = functions
          /\ functionCalls' = functionCalls
          /\ skippedFunctionCount' = skippedFunctionCount + 1]_vars
  /\ [](\A d \in Declared : ~isBlacklistedFunction(d.name))
  /\ [](\A name \in InventoryNames \cup FlaggedNames \cup TierNames :
          ~isBlacklistedFunction(name))

\* onClick, declared after a tracked function, was visited and skipped:
\* the one Declaration is the tracked function's.
C11_Witness ==
  /\ pc = "traverse"
  /\ \E k \in 1..(pos - 1) :
       /\ ast[Visits(ast)[k].node].kind = "Function"
       /\ ast[Visits(ast)[k].node].name = NameOnClick
  /\ skippedFunctionCount = 1
  /\ Len(functions) = 1

\* The parents through which getFunctionInfo binds a function expression
\* or an arrow function to a name.
BindingParents ==
  {"VariableDeclarator", "AssignmentExpression"} \cup PropertyTypes

\* The Function visitor is about to visit a function expression or arrow
\* function that no variable, property key or assignment target binds.
VisitingInline ==
  /\ AtVisit("enter", "Function")
  /\ ast[CurrentNode].type
       \in {"ArrowFunctionExpression", "FunctionExpression"}
  /\ ast[CurrentNode].syn.ptype \notin BindingParents

\* C12: visiting a function expression or arrow function that is bound to
\* no variable, property key or member-assignment target adds nothing to
\* the Declaration map, creates no Call Aggregate and adds exactly one to
\* skippedFunctionCount.
C12_InlineOnlySkipped ==
  [][VisitingInline =>
       /\ functions' = functions
       /\ functionCalls' = functionCalls
       /\ errors' = errors
       /\ skippedFunctionCount' = skippedFunctionCount + 1]_vars

\* The same, for the functions that have no id of their own.
AnonymousInlineOnlySkipped ==
  [][(VisitingInline /\ ast[CurrentNode].name = Null) =>
       /\ functions' = functions
       /\ functionCalls' = functionCalls
       /\ errors' = errors
       /\ skippedFunctionCount' = skippedFunctionCount + 1]_vars

\* The usage tier the report puts declaration d in.
TiersOf(d) ==
  {"unused" : f \in {f \in SeqToSet(report.usage.unused) : f.id = d.id}}
    \cup {"single-use" :
            e \in {e \in SeqToSet(report.usage.singleUse) : e.func.id = d.id}}
    \cup {"well-used" :
            e \in {e \in SeqToSet(report.usage.multiUse) : e.func.id = d.id}}

\* The call counts the inventory prints for declaration d.
InventoryCallCounts(d) ==
  UNION {UNION {{g.functions[k].callCount :
                   k \in {j \in 1..Len(g.functions) :
                            /\ g.functions[j].name = d.name
                            /\ g.functions[j].line = d.line}} :
                g \in {h \in SeqToSet(b.groups) : h.class = d.class}} :
         b \in {c \in SeqToSet(report.inventory) : c.file = d.file}}

\* C13: calls are aggregated by bare name: two Declarations with the same
\* name, whatever their file, line or class, are reported with the same
\* number of calls, which is the number of Call Records of that name, and
\* in the same usage tier.
C13_NameOnlyAggregation ==
  pc = "done" =>
    \A d1, d2 \in Declared :
      d1.name = d2.name =>
        /\ InventoryCallCounts(d1) = {Len(functionCalls[d1.name].callers)}
        /\ InventoryCallCounts(d2) = InventoryCallCounts(d1)
        /\ TiersOf(d1) = TiersOf(d2)
        /\ Cardinality(TiersOf(d1)) = 1

\* Two Declarations named alike on different lines and one call of the
\* name: the report counts the call for both.
C13_Witness ==
  /\ pc = "done"
  /\ \E d1, d2 \in Declared :
       /\ d1.name = d2.name
       /\ d1.line # d2.line
       /\ functionCalls[d1.name].totalCalls = 1
       /\ TiersOf(d1) = {"single-use"}
       /\ TiersOf(d2) = {"single-use"}

\* s is a prefix of t
IsPrefix(s, t) == Len(s) <= Len(t) /\ SubSeq(t, 1, Len(s)) = s

\* C14: from the step that creates it, every Declaration's name has a Call
\* Aggregate in functionCalls (with no caller if none was seen), and no
\* step removes an aggregate or a Call Record: callers only grow.
C14_AggregatePerDeclaration ==
  /\ [](\A d \in Declared : d.name \in DOMAIN functionCalls)
  /\ [][\A name \in DOMAIN functionCalls :
          /\ name \in DOMAIN functionCalls'
          /\ IsPrefix(functionCalls[name].callers,
                      functionCalls'[name].callers)]_vars

\* A run ends with a Declaration that was never called: its aggregate is
\* there, empty, next to an aggregate a call created.
C14_Witness ==
  /\ pc = "done"
  /\ \E d \in Declared : functionCalls[d.name].callers = << >>
  /\ \E name \in DOMAIN functionCalls : functionCalls[name].totalCalls = 1

\* What a fresh analyzer holds.
FreshAnalyzer == [functions |-> << >>, functionCalls |-> << >>, skipped |-> 0]

\* What one visit of the traversal of tree tr of file makes of an.
ReplayVisit(an, tr, file, i, className) ==
  LET node == tr[i]
      name == getCallName(node)
      caller == [file |-> file, line |-> node.line,
                 awaited |-> node.parent # 0 /\ tr[node.parent].kind = "Await"]
  IN  IF node.kind = "Function"
      THEN IF ShouldSkip(node)
           THEN [an EXCEPT !.skipped = @ + 1]
           ELSE [an EXCEPT
                   !.functions = MapSet(@, Declaration(tr, i, file, className)),
                   !.functionCalls =
                      EnsureAggregate(@, getFunctionInfo(node).name)]
      ELSE IF node.kind = "Call" /\ name # Null
        THEN [an EXCEPT
                !.functionCalls =
                   [EnsureAggregate(@, name) EXCEPT
                      ![name] = RecordCall(@, caller)]]
      ELSE an

\* The class name the visitors hold after visit v.
ClassAfter(tr, v, className) ==
  IF tr[v.node].kind # "Class" THEN className
  ELSE IF v.ev = "exit" THEN Null
  ELSE IF tr[v.node].name # Null THEN tr[v.node].name
  ELSE NameAnonymousClass

\* The analysis of one file as a function of its tree: the visits from the
\* k-th on, applied in order.
RECURSIVE ReplayVisits(_, _, _, _, _)
ReplayVisits(an, tr, file, k, className) ==
  IF k > Len(Visits(tr)) THEN an
  ELSE ReplayVisits(ReplayVisit(an, tr, file, Visits(tr)[k].node, className),
                    tr, file, k + 1, ClassAfter(tr, Visits(tr)[k], className))

\* The analysis of a run as a function of the file list and of what the
\* files held.
RECURSIVE ReplayFiles(_, _, _, _)
ReplayFiles(an, files, held, i) ==
  IF i > Len(held) THEN an
  ELSE ReplayFiles(IF held[i].threw THEN an
                   ELSE ReplayVisits(an, held[i].ast, files[i], 1, Null),
                   files, held, i + 1)

CallersOf(calls, name) ==
  IF name \in DOMAIN calls THEN calls[name].callers ELSE << >>

\* The CallExpression visitor is about to visit a call whose callee gives
\* a name.
VisitingNamedCall ==
  /\ AtVisit("enter", "Call")
  /\ getCallName(ast[CurrentNode]) # Null

\* The function-like node the call at node i lies in (0: none).
CallContext(tr, i) == EnclosingFunction(tr, tr[i].parent)

\* C16: every call expression whose callee gives a name appends exactly
\* one Call Record, with its file and line, to the aggregate of that name
\* and touches no other aggregate, wherever the call lies: at the top
\* level of the file, in a tracked declaration, or in a function that is
\* skipped (inline, anonymous or blacklisted).
C16_EveryCallRecorded ==
  [][VisitingNamedCall =>
       LET name == getCallName(ast[CurrentNode])
           before == CallersOf(functionCalls, name)
       IN  /\ name \in DOMAIN functionCalls'
           /\ Len(functionCalls'[name].callers) = Len(before) + 1
           /\ IsPrefix(before, functionCalls'[name].callers)
           /\ functionCalls'[name].callers[Len(before) + 1].file = CurrentFile
           /\ functionCalls'[name].callers[Len(before) + 1].line
                = ast[CurrentNode].line
           /\ functionCalls'[name].totalCalls = Len(before) + 1
           /\ \A other \in DOMAIN functionCalls' \ {name} :
                /\ other \in DOMAIN functionCalls
                /\ functionCalls'[other] = functionCalls[other]]_vars

\* The traversal of a file is over; one of its calls lies in an inline
\* arrow function, which is skipped, and the aggregate of its name holds
\* that Call Record and the one of a call made elsewhere.
C16_Witness ==
  /\ pc = "traverse"
  /\ pos > Len(Visits(ast))
  /\ \E i \in 1..Len(ast) :
       /\ ast[i].kind = "Call"
       /\ CallContext(ast, i) # 0
       /\ ast[CallContext(ast, i)].type = "ArrowFunctionExpression"
       /\ ShouldSkip(ast[CallContext(ast, i)])
       /\ functionCalls[getCallName(ast[i])].totalCalls = 2

\* The nearest class declaration node i lies in (0: none).
RECURSIVE EnclosingClass(_, _)
EnclosingClass(tr, p) ==
  IF p = 0 THEN 0
  ELSE IF tr[p].kind = "Class" THEN p
  ELSE EnclosingClass(tr, tr[p].parent)

\* The Declarations recorded for the function-like node i of the file
\* being traversed.
DeclarationsAt(i) ==
  {d \in Declared : d.file = CurrentFile /\ d.line = ast[i].line}

\* The function-like nodes of the current file visited so far.
FunctionsVisited ==
  {Visits(ast)[k].node : k \in {j \in 1..(pos - 1) :
                                   ast[Visits(ast)[j].node].kind = "Function"}}

\* C17: every method declared in the body of a named class is recorded
\* with the class's name as its owning type (class), and every tracked
\* declaration outside any class is recorded with none; so it is with
\* nested classes and with declarations that follow a class.
C17_OwningType ==
  pc = "traverse" =>
    \A i \in FunctionsVisited :
      LET member == ast[i].parent # 0 /\ ast[ast[i].parent].kind = "Class"
          free == EnclosingClass(ast, ast[i].parent) = 0
      IN  /\ member =>
               \E d \in DeclarationsAt(i) : d.class = ast[ast[i].parent].name
          /\ (free /\ ~ShouldSkip(ast[i])) =>
               \E d \in DeclarationsAt(i) :
                 d.name = getFunctionInfo(ast[i]).name /\ d.class = Null

\* The place of a declaration in the Declaration map (discovery order).
Discovery(id) == CHOOSE k \in 1..Len(functions) : functions[k].id = id

\* C18: the well-used list holds every declaration with two calls or more,
\* each once, in descending order of totalCalls; declarations with as many
\* calls are in the order in which they were added to the Declaration map.
C18_WellUsedSorted ==
  pc = "done" =>
    LET multiUse == report.usage.multiUse
    IN  /\ {multiUse[i].func.id : i \in 1..Len(multiUse)}
             = {d.id : d \in {e \in Declared : TotalCalls(e) >= 2}}
        /\ Len(multiUse) = Cardinality({e \in Declared : TotalCalls(e) >= 2})
        /\ \A i, j \in 1..Len(multiUse) :
             i < j =>
               /\ multiUse[i].callInfo.totalCalls
                    >= multiUse[j].callInfo.totalCalls
               /\ multiUse[i].callInfo.totalCalls
                     = multiUse[j].callInfo.totalCalls
                    => Discovery(multiUse[i].func.id)
                         < Discovery(multiUse[j].func.id)

\* Declarations with two calls were discovered before declarations with
\* three: the list starts with the latter, and both groups have ties.
C18_Witness ==
  /\ pc = "done"
  /\ Len(report.usage.multiUse) = 4
  /\ report.usage.multiUse[1].callInfo.totalCalls = 3
  /\ report.usage.multiUse[2].callInfo.totalCalls = 3
  /\ report.usage.multiUse[3].callInfo.totalCalls = 2
  /\ report.usage.multiUse[4].callInfo.totalCalls = 2
  /\ Discovery(report.usage.multiUse[1].func.id) = 3
  /\ Discovery(report.usage.multiUse[3].func.id) = 1

\* C19: the total the validation section prints ('Total async/await
\* issues found') is the number countAsyncIssues returns, which the
\* async-fix recommendation prints.
C19_IssueTotalsAgree ==
  pc = "done" =>
    report.validation.issues = countAsyncIssues(functions, functionCalls)

\* C20: the recommendations block of a report is never empty: the cleanup
\* priority, the inlining suggestion, the async-fix suggestion or the
\* 'excellent codebase' message is logged.
C20_SomeRecommendation ==
  pc = "done" => report.recommendations # << >>

\* The canonical names analyzeFunction can store that no identifier spells:
\* an accessor prefix followed by the key, or a key in brackets.
CarriesAccessorPrefix(name) ==
  \/ StartsWith(name, AccessorPrefix("get"))
  \/ StartsWith(name, AccessorPrefix("set"))

Bracketed(name) ==
  /\ Len(name) >= 2
  /\ name[1] = "["
  /\ name[Len(name)] = "]"

KeyedName(name) == CarriesAccessorPrefix(name) \/ Bracketed(name)

\* C21: a Declaration whose name carries the accessor prefix "get " or
\* "set ", or has the bracketed computed-key form, is never matched by a
\* Call Record: in every reachable state the Call Aggregate of its name has
\* no caller and totalCalls 0, and the report lists it as unused.
C21_KeyedNeverCalled ==
  \A d \in Declared :
    KeyedName(d.name) =>
      /\ HasCalls(functionCalls, d.name)
      /\ GetCalls(functionCalls, d.name).callers = << >>
      /\ GetCalls(functionCalls, d.name).totalCalls = 0
      /\ pc = "done" => TiersOf(d) = {"unused"}

\* An arrow is declared under a computed key and the key's property is
\* called by name: the call is recorded under the bare name and the report
\* still lists the declaration as unused.
C21_Witness ==
  /\ pc = "done"
  /\ \E d \in Declared :
       /\ Bracketed(d.name)
       /\ TiersOf(d) = {"unused"}
       /\ \E name \in DOMAIN functionCalls :
            /\ functionCalls[name].totalCalls > 0
            /\ EndsWith(d.name, name \o <<"]">>)

====
